---- MODULE Spec2Model ----
(***************************************************************************)
(* hr_timesheet: the project.project and project.task extensions of        *)
(* addons/hr_timesheet/models/project.py.                                  *)
(*                                                                         *)
(* Records are functions from the ids that exist to their stored fields.   *)
(* An empty many2one (False) is NoId.  A python dict of values is a record *)
(* whose DOMAIN is the set of keys present.  Hours are integers counting   *)
(* thousandths of an hour, progress counts hundredths of a percent.        *)
(***************************************************************************)
EXTENDS Integers, Sequences, FiniteSets, TLC

VARIABLES project, nextProjectId, accounts, task, line, last, search

vars == <<project, nextProjectId, accounts, task, line, last, search>>

----------------------------------------------------------------------------
(* Bounds *)

MaxProjects == 2
MaxAccounts == 3
MaxLines == 2
NumTasks == 3

NoId == 0

ProjectIds == 1..MaxProjects
LineIds == 1..MaxLines
TaskIds == 1..NumTasks

----------------------------------------------------------------------------
(* Helpers on sets and sequences *)

Min(S) == CHOOSE x \in S : \A y \in S : x <= y

RECURSIVE SetToSeq(_)
SetToSeq(S) == IF S = {} THEN <<>> ELSE <<Min(S)>> \o SetToSeq(S \ {Min(S)})

RECURSIVE SumOver(_, _)
SumOver(S, f) == IF S = {} THEN 0
                 ELSE LET x == CHOOSE y \in S : TRUE
                      IN f[x] + SumOver(S \ {x}, f)

\* dict.get(key) on the two keys the hooks read; a missing key gives the
\* default (None is falsy: FALSE for the flag, NoId for the many2one)
GetAllow(vals, default) ==
    IF "allow_timesheets" \in DOMAIN vals THEN vals.allow_timesheets ELSE default

GetAccount(vals, default) ==
    IF "analytic_account_id" \in DOMAIN vals THEN vals.analytic_account_id ELSE default

\* vals['analytic_account_id'] = a
SetAccount(vals, a) ==
    [k \in DOMAIN vals \cup {"analytic_account_id"} |->
        IF k = "analytic_account_id" THEN a ELSE vals[k]]

\* The accounts a caller names in values: none, or the first one that exists
Supplied(accs) == {NoId} \cup (IF accs >= 1 THEN {1} ELSE {})

\* The dicts a caller can pass for the two fields, naming the accounts accs
ProjectVals(accs) ==
    {<<>>}
    \cup {[allow_timesheets |-> b] : b \in BOOLEAN}
    \cup {[analytic_account_id |-> a] : a \in accs}
    \cup {[allow_timesheets |-> b, analytic_account_id |-> a] :
            b \in BOOLEAN, a \in accs}

NoLast == [op |-> "none", ids |-> {}, vals |-> <<>>, hooked |-> <<>>,
           ctx |-> NoId, result |-> "ok", active_ids |-> {}, plural |-> FALSE]

----------------------------------------------------------------------------
(* project.project *)

\* field defaults: allow_timesheets default=True; analytic_account_id has no
\* field default, the context may supply one (default_analytic_account_id)
default_get(ctxAccount) ==
    [allow_timesheets |-> TRUE, analytic_account_id |-> ctxAccount]

\* _check_allow_timesheet over the records ids of projs: TRUE when it raises
check_allow_timesheet_never(projs, ids) == FALSE

_check_allow_timesheet(projs, ids) ==
    \E p \in ids : projs[p].allow_timesheets /\ projs[p].analytic_account_id = NoId

\* _compute_allow_timesheets over the stored records ids
_compute_allow_timesheets(projs, ids) ==
    [p \in DOMAIN projs |->
        IF p \in ids /\ projs[p].analytic_account_id = NoId
        THEN [projs[p] EXCEPT !.allow_timesheets = FALSE]
        ELSE projs[p]]

\* the create hook with the provisioning left out
create_hook_none(vals_list, defaults, accs) ==
    [vals_list |-> vals_list, accounts |-> accs]

\* Project.create, lines 186-192: the loop over vals_list.  Gives the
\* vals_list as the loop leaves it and the number of accounts that exist.
RECURSIVE create_hook(_, _, _)
create_hook(vals_list, defaults, accs) ==
    IF vals_list = <<>> THEN [vals_list |-> <<>>, accounts |-> accs]
    ELSE LET vals == Head(vals_list)
             allow_timesheets == GetAllow(vals, defaults.allow_timesheets)
             analytic_account_id == GetAccount(vals, defaults.analytic_account_id)
             provision == allow_timesheets /\ analytic_account_id = NoId
             accs1 == IF provision THEN accs + 1 ELSE accs
             vals1 == IF provision THEN SetAccount(vals, accs + 1) ELSE vals
             rest == create_hook(Tail(vals_list), defaults, accs1)
         IN [vals_list |-> <<vals1>> \o rest.vals_list, accounts |-> rest.accounts]

\* Project.write, lines 197-200: one account per project of self without one
RECURSIVE write_hook_loop(_, _, _)
write_hook_loop(projs, todo, accs) ==
    IF todo = <<>> THEN [project |-> projs, accounts |-> accs]
    ELSE LET p == Head(todo)
         IN IF projs[p].analytic_account_id = NoId
            THEN write_hook_loop(
                    [projs EXCEPT ![p].analytic_account_id = accs + 1],
                    Tail(todo), accs + 1)
            ELSE write_hook_loop(projs, Tail(todo), accs)

write_hook(projs, ids, values, accs) ==
    IF GetAllow(values, FALSE) /\ GetAccount(values, NoId) = NoId
    THEN write_hook_loop(projs, SetToSeq(ids), accs)
    ELSE [project |-> projs, accounts |-> accs]

\* super().create: one new record per vals, missing fields from the defaults
orm_create(projs, firstId, vals_list, defaults) ==
    [p \in DOMAIN projs \cup (firstId..(firstId + Len(vals_list) - 1)) |->
        IF p \in DOMAIN projs THEN projs[p]
        ELSE LET vals == vals_list[p - firstId + 1]
             IN [allow_timesheets |-> GetAllow(vals, defaults.allow_timesheets),
                 analytic_account_id |-> GetAccount(vals, defaults.analytic_account_id),
                 allocated_hours |-> 0]]

\* super().write: assign the values, then recompute the stored computed
\* field allow_timesheets on a change of its dependency unless the write
\* assigns it
orm_write(projs, ids, values) ==
    LET assigned ==
            [p \in DOMAIN projs |->
                IF p \in ids
                THEN [allow_timesheets |-> GetAllow(values, projs[p].allow_timesheets),
                      analytic_account_id |-> GetAccount(values, projs[p].analytic_account_id),
                      allocated_hours |-> projs[p].allocated_hours]
                ELSE projs[p]]
    IN IF "analytic_account_id" \in DOMAIN values /\ "allow_timesheets" \notin DOMAIN values
       THEN _compute_allow_timesheets(assigned, ids)
       ELSE assigned

ProjectValsLists(accs) ==
    {<<v>> : v \in ProjectVals(accs)}
    \cup {<<v, w>> : v \in ProjectVals(accs), w \in ProjectVals(accs)}

\* Project.create(vals_list); a ValidationError rolls the transaction back
ProjectCreate ==
    \E ctxAccount \in Supplied(accounts) :
    \E vals_list \in ProjectValsLists(Supplied(accounts)) :
        LET defaults == default_get(ctxAccount)
            hook == create_hook(vals_list, defaults, accounts)
            created == orm_create(project, nextProjectId, hook.vals_list, defaults)
            newIds == DOMAIN created \ DOMAIN project
            raised == _check_allow_timesheet(created, newIds)
        IN /\ nextProjectId + Len(vals_list) - 1 <= MaxProjects
           /\ hook.accounts <= MaxAccounts
           /\ last' = [NoLast EXCEPT !.op = "create", !.ids = newIds,
                          !.vals = vals_list, !.hooked = hook.vals_list,
                          !.ctx = ctxAccount,
                          !.result = IF raised THEN "ValidationError" ELSE "ok"]
           /\ IF raised
              THEN UNCHANGED <<project, nextProjectId, accounts>>
              ELSE /\ project' = created
                   /\ nextProjectId' = nextProjectId + Len(vals_list)
                   /\ accounts' = hook.accounts
           /\ UNCHANGED <<task, line, search>>

\* Project.write(values) on the recordset ids
ProjectWrite ==
    \E ids \in SUBSET DOMAIN project :
    \E values \in ProjectVals(Supplied(accounts)) :
        LET hook == write_hook(project, ids, values, accounts)
            written == orm_write(hook.project, ids, values)
            constrained == DOMAIN values \cap {"allow_timesheets", "analytic_account_id"} # {}
            raised == constrained /\ _check_allow_timesheet(written, ids)
        IN /\ hook.accounts <= MaxAccounts
           /\ last' = [NoLast EXCEPT !.op = "write", !.ids = ids,
                          !.vals = <<values>>,
                          !.result = IF raised THEN "ValidationError" ELSE "ok"]
           /\ IF raised
              THEN UNCHANGED <<project, accounts>>
              ELSE /\ project' = written
                   /\ accounts' = hook.accounts
           /\ UNCHANGED <<nextProjectId, task, line, search>>

\* the project before-delete hook with the check left out
Project_unlink_no_check(lines, ids) ==
    [raised |-> FALSE, active_ids |-> {}, plural |-> FALSE]

\* Project._unlink_except_contains_entries: timesheet_ids is the one2many
\* of account.analytic.line over project_id
Project_unlink_except_contains_entries(lines, ids) ==
    LET projects_with_timesheets ==
            {p \in ids : \E l \in DOMAIN lines : lines[l].project_id = p}
    IN [raised |-> projects_with_timesheets # {},
        active_ids |-> projects_with_timesheets,
        plural |-> Cardinality(projects_with_timesheets) > 1]

\* unlink of the recordset ids: the hook, then the rows go and the
\* many2one of a task to a deleted project is set to null
ProjectUnlink ==
    \E ids \in SUBSET DOMAIN project :
        LET hook == Project_unlink_except_contains_entries(line, ids)
        IN /\ last' = [NoLast EXCEPT !.op = "unlink", !.ids = ids,
                          !.result = IF hook.raised THEN "RedirectWarning" ELSE "ok",
                          !.active_ids = hook.active_ids, !.plural = hook.plural]
           /\ IF hook.raised
              THEN UNCHANGED <<project, task>>
              ELSE /\ project' = [p \in DOMAIN project \ ids |-> project[p]]
                   /\ task' = [t \in DOMAIN task |->
                                IF task[t].project_id \in ids
                                THEN [task[t] EXCEPT !.project_id = NoId]
                                ELSE task[t]]
           /\ UNCHANGED <<nextProjectId, accounts, line, search>>

----------------------------------------------------------------------------
(* Rounding.  Hours count thousandths, so two decimals are multiples of 10 *)

Abs(x) == IF x < 0 THEN -x ELSE x

Sign(x) == IF x < 0 THEN -1 ELSE IF x > 0 THEN 1 ELSE 0

\* odoo float_round(value, precision_digits=2): nearest, halves away from zero
float_round(x) == Sign(x) * (((Abs(x) + 5) \div 10) * 10)

\* float_compare(value1, value2, precision_digits=2)
float_compare(value1, value2) == Sign(float_round(value1) - float_round(value2))

\* python round(100.0 * n / d, 2) for d > 0, in hundredths of a percent:
\* the nearest hundredth, an exact half going to the even neighbour
round_percent(n, d) ==
    LET num == 100 * 100 * n
        q == num \div d
        r == num % d
    IN IF 2 * r < d THEN q
       ELSE IF 2 * r > d THEN q + 1
       ELSE IF q % 2 = 0 THEN q ELSE q + 1

----------------------------------------------------------------------------
(* project.task *)

\* Task._get_timesheet of the recordset ids: self.timesheet_ids, the
\* one2many of account.analytic.line over task_id
_get_timesheet(lines, ids) == {l \in DOMAIN lines : lines[l].task_id \in ids}

\* _compute_effective_hours for the stored task t (the read_group branch)
_compute_effective_hours(lines, t) ==
    SumOver({l \in DOMAIN lines : lines[l].task_id = t},
            [l \in DOMAIN lines |-> lines[l].unit_amount])

\* the rollup over the active children only
subtask_hours_active_only(tasks, t) ==
    SumOver({c \in DOMAIN tasks : tasks[c].parent_id = t /\ tasks[c].active},
            [c \in DOMAIN tasks |->
                tasks[c].effective_hours + tasks[c].subtask_effective_hours])

\* _compute_subtask_effective_hours for task t: child_ids under
\* active_test=False, so archived children count
_compute_subtask_effective_hours(tasks, t) ==
    SumOver({c \in DOMAIN tasks : tasks[c].parent_id = t},
            [c \in DOMAIN tasks |->
                tasks[c].effective_hours + tasks[c].subtask_effective_hours])

\* progress and overtime without the clamps
progress_hours_unclamped(planned_hours, effective_hours, subtask_effective_hours) ==
    LET task_total_hours == effective_hours + subtask_effective_hours
    IN [overtime |-> task_total_hours - planned_hours,
        progress |-> IF planned_hours > 0
                     THEN round_percent(task_total_hours, planned_hours) ELSE 0]

\* _compute_progress_hours for one task
_compute_progress_hours(planned_hours, effective_hours, subtask_effective_hours) ==
    IF planned_hours > 0
    THEN LET task_total_hours == effective_hours + subtask_effective_hours
         IN [overtime |-> IF task_total_hours - planned_hours > 0
                          THEN task_total_hours - planned_hours ELSE 0,
             progress |-> IF float_compare(task_total_hours, planned_hours) >= 0
                          THEN 100 * 100
                          ELSE round_percent(task_total_hours, planned_hours)]
    ELSE [overtime |-> 0, progress |-> 0]

\* the remaining hours with the hours of the subtasks left out
remaining_hours_own_only(planned_hours, effective_hours, subtask_effective_hours) ==
    planned_hours - effective_hours

\* Task._compute_remaining_hours for one task
Task_compute_remaining_hours(planned_hours, effective_hours, subtask_effective_hours) ==
    planned_hours - effective_hours - subtask_effective_hours

\* Task._compute_total_hours_spent for one task
_compute_total_hours_spent(effective_hours, subtask_effective_hours) ==
    effective_hours + subtask_effective_hours

\* Task._compute_remaining_hours_percentage for one task: the quotient as
\* the fraction num / den
_compute_remaining_hours_percentage(planned_hours, remaining_hours) ==
    IF planned_hours > 0
    THEN [num |-> remaining_hours, den |-> planned_hours]
    ELSE [num |-> 0, den |-> 1]

\* the stored fields that depend on effective_hours, subtask_effective_hours
\* and planned_hours of one task
DependentFields(tk) ==
    LET ph == _compute_progress_hours(tk.planned_hours, tk.effective_hours,
                                      tk.subtask_effective_hours)
    IN [tk EXCEPT !.progress = ph.progress, !.overtime = ph.overtime,
                  !.remaining_hours =
                      Task_compute_remaining_hours(tk.planned_hours, tk.effective_hours,
                                                   tk.subtask_effective_hours),
                  !.total_hours_spent =
                      _compute_total_hours_spent(tk.effective_hours,
                                                 tk.subtask_effective_hours)]

\* the recursive field: the parents of the tasks whose hours changed are
\* recomputed, then theirs, up to the roots
RECURSIVE Rollup(_, _)
Rollup(tasks, changed) ==
    LET parents == {tasks[t].parent_id : t \in changed \cap DOMAIN tasks} \ {NoId}
    IN IF parents = {} THEN tasks
       ELSE Rollup([t \in DOMAIN tasks |->
                      IF t \in parents
                      THEN [tasks[t] EXCEPT !.subtask_effective_hours =
                                _compute_subtask_effective_hours(tasks, t)]
                      ELSE tasks[t]],
                   parents)

\* recomputation of the stored computed fields after the timesheets of the
\* tasks dirty changed, and after the children of the tasks reparented changed
Recompute(tasks, lines, dirty, reparented) ==
    LET eff == [t \in DOMAIN tasks |->
                  IF t \in dirty
                  THEN [tasks[t] EXCEPT !.effective_hours =
                            _compute_effective_hours(lines, t)]
                  ELSE tasks[t]]
        own == [t \in DOMAIN tasks |->
                  IF t \in reparented
                  THEN [eff[t] EXCEPT !.subtask_effective_hours =
                            _compute_subtask_effective_hours(eff, t)]
                  ELSE eff[t]]
        rolled == Rollup(own, dirty \cup reparented)
    IN [t \in DOMAIN tasks |-> DependentFields(rolled[t])]

\* the task write hook with the guard on timesheets left out
Task_write_hook_no_guard(lines, ids, values) == FALSE

\* Task.write, line 364: TRUE when the UserError is raised
Task_write_hook(lines, ids, values) ==
    /\ "project_id" \in DOMAIN values
    /\ values.project_id = NoId
    /\ _get_timesheet(lines, ids) # {}

\* the timesheets follow the tasks whatever the new project allows
Task_write_timesheets_always(lines, projs, ids, values) ==
    IF "project_id" \in DOMAIN values
    THEN [l \in DOMAIN lines |->
            IF l \in _get_timesheet(lines, ids)
            THEN [lines[l] EXCEPT !.project_id = values.project_id]
            ELSE lines[l]]
    ELSE lines

\* Task.write, lines 368-372: the timesheets of the written tasks after the
\* underlying write
Task_write_timesheets(lines, projs, ids, values) ==
    IF "project_id" \in DOMAIN values
       /\ values.project_id \in DOMAIN projs
       /\ projs[values.project_id].allow_timesheets
    THEN [l \in DOMAIN lines |->
            IF l \in _get_timesheet(lines, ids)
            THEN [lines[l] EXCEPT !.project_id = values.project_id]
            ELSE lines[l]]
    ELSE lines

\* super().write on tasks: assign the values present (the fields that
\* depend on them are recomputed by the caller)
orm_task_write(tasks, ids, values) ==
    [t \in DOMAIN tasks |->
        IF t \in ids
        THEN [tasks[t] EXCEPT
                !.project_id = IF "project_id" \in DOMAIN values
                               THEN values.project_id ELSE @,
                !.planned_hours = IF "planned_hours" \in DOMAIN values
                                  THEN values.planned_hours ELSE @]
        ELSE tasks[t]]

\* Task.write(values) on the recordset ids, values drawn from valsSet
TaskWriteOver(valsSet) ==
    \E ids \in SUBSET DOMAIN task :
    \E values \in valsSet :
        LET raised == Task_write_hook(line, ids, values)
        IN /\ last' = [NoLast EXCEPT !.op = "task_write", !.ids = ids,
                          !.vals = <<values>>,
                          !.result = IF raised THEN "UserError" ELSE "ok"]
           /\ IF raised
              THEN UNCHANGED <<task, line>>
              ELSE /\ task' = Recompute(orm_task_write(task, ids, values), line, {}, {})
                   /\ line' = Task_write_timesheets(line, project, ids, values)
           /\ UNCHANGED <<project, nextProjectId, accounts, search>>

\* the writes that move tasks between projects or out of any project
TaskMove ==
    TaskWriteOver({<<>>} \cup {[project_id |-> x] : x \in {NoId} \cup DOMAIN project})

\* the writes of the planned hours
PlannedSet == {-1000, 0, 995, 1000, 1004}

TaskPlan ==
    TaskWriteOver({[planned_hours |-> h] : h \in PlannedSet})

\* the task before-delete hook with the check left out
Task_unlink_no_check(lines, ids) ==
    [raised |-> FALSE, active_ids |-> {}, plural |-> FALSE]

\* Task._unlink_except_contains_entries: the read_group of the lines whose
\* task_id is in self, grouped by task_id
Task_unlink_except_contains_entries(lines, ids) ==
    LET task_with_timesheets_ids ==
            {lines[l].task_id : l \in {k \in DOMAIN lines : lines[k].task_id \in ids}}
    IN [raised |-> task_with_timesheets_ids # {},
        active_ids |-> task_with_timesheets_ids,
        plural |-> Cardinality(task_with_timesheets_ids) > 1]

\* unlink of the task recordset ids: the hook, then the rows go, parent_id
\* of the children is set to null and the parents are recomputed
TaskUnlink ==
    \E ids \in SUBSET DOMAIN task :
        LET hook == Task_unlink_except_contains_entries(line, ids)
            parents == {task[t].parent_id : t \in ids} \ ({NoId} \cup ids)
            kept == [t \in DOMAIN task \ ids |->
                        IF task[t].parent_id \in ids
                        THEN [task[t] EXCEPT !.parent_id = NoId]
                        ELSE task[t]]
        IN /\ ids # {}
           /\ last' = [NoLast EXCEPT !.op = "task_unlink", !.ids = ids,
                          !.result = IF hook.raised THEN "RedirectWarning" ELSE "ok",
                          !.active_ids = hook.active_ids, !.plural = hook.plural]
           /\ IF hook.raised
              THEN UNCHANGED task
              ELSE task' = Recompute(kept, line, {}, parents)
           /\ UNCHANGED <<project, nextProjectId, accounts, line, search>>

----------------------------------------------------------------------------
(* account.analytic.line: the time entries *)

Amounts == {1000, 2500}

\* a time entry of one of the amounts is logged on a task (and the project
\* of the task) or on a project alone; at most MaxLines entries exist at a
\* time, a new one takes the first free id
TimesheetCreateOver(amounts) ==
    \E t \in DOMAIN task \cup {NoId} :
    \E p \in DOMAIN project :
    \E amount \in amounts :
        /\ Cardinality(DOMAIN line) < MaxLines
        /\ t # NoId => task[t].project_id = p
        /\ LET new == Min(LineIds \ DOMAIN line)
           IN /\ line' = [l \in DOMAIN line \cup {new} |->
                            IF l = new
                            THEN [project_id |-> p, task_id |-> t,
                                  unit_amount |-> amount]
                            ELSE line[l]]
              /\ last' = [NoLast EXCEPT !.op = "timesheet"]
        /\ task' = Recompute(task, line', {t} \cap DOMAIN task, {})
        /\ UNCHANGED <<project, nextProjectId, accounts, search>>

TimesheetCreate == TimesheetCreateOver(Amounts)

\* time entries of one hour
TimesheetLog == TimesheetCreateOver({1000})

\* the amount of a time entry is changed
TimesheetWrite ==
    \E l \in DOMAIN line :
    \E amount \in Amounts :
        /\ amount # line[l].unit_amount
        /\ line' = [line EXCEPT ![l].unit_amount = amount]
        /\ task' = Recompute(task, line', {line[l].task_id} \cap DOMAIN task, {})
        /\ last' = [NoLast EXCEPT !.op = "timesheet"]
        /\ UNCHANGED <<project, nextProjectId, accounts, search>>

\* a time entry is deleted
TimesheetUnlink ==
    \E l \in DOMAIN line :
        /\ line' = [k \in DOMAIN line \ {l} |-> line[k]]
        /\ task' = Recompute(task, line', {line[l].task_id} \cap DOMAIN task, {})
        /\ last' = [NoLast EXCEPT !.op = "timesheet"]
        /\ UNCHANGED <<project, nextProjectId, accounts, search>>

----------------------------------------------------------------------------
(* Specification of the project hooks: an empty database, then projects    *)
(* are created, written and deleted and time is logged on them             *)

NoSearch == [fn |-> "none", operator |-> "=",
             value |-> [type |-> "bool", v |-> "True"], result |-> "none"]

Init ==
    /\ project = <<>>
    /\ nextProjectId = 1
    /\ accounts = 0
    /\ task = <<>>
    /\ line = <<>>
    /\ last = NoLast
    /\ search = NoSearch

Next ==
    \/ ProjectCreate
    \/ ProjectWrite

Spec == Init /\ [][Next]_vars

----------------------------------------------------------------------------
(* Specification of the before-delete hooks: a database of projects, each  *)
(* with an account, and of tasks spread over them; time is logged and      *)
(* removed, projects and tasks are deleted                                 *)

InitProject(p) ==
    [allow_timesheets |-> TRUE, analytic_account_id |-> p, allocated_hours |-> 0]

InitTask(p, parent) ==
    [project_id |-> p, parent_id |-> parent, active |-> TRUE, is_closed |-> FALSE,
     planned_hours |-> 0, effective_hours |-> 0, subtask_effective_hours |-> 0,
     progress |-> 0, overtime |-> 0, remaining_hours |-> 0,
     total_hours_spent |-> 0]

InitUnlink ==
    /\ project = [p \in ProjectIds |-> InitProject(p)]
    /\ nextProjectId = MaxProjects + 1
    /\ accounts = MaxProjects
    /\ task = [t \in TaskIds |->
                InitTask(((t - 1) % MaxProjects) + 1, IF t = 2 THEN 1 ELSE NoId)]
    /\ line = <<>>
    /\ last = NoLast
    /\ search = NoSearch

NextUnlink ==
    \/ ProjectUnlink
    \/ TaskUnlink
    \/ TimesheetLog
    \/ TimesheetUnlink

SpecUnlink == InitUnlink /\ [][NextUnlink]_vars

----------------------------------------------------------------------------
(* Specification of the task write hook: projects that allow timesheets    *)
(* (the odd ones, each with an account) and projects that do not, and a    *)
(* pair of tasks of the first project; tasks are moved between projects,   *)
(* time is logged and removed                                              *)

InitMoveProject(p) ==
    IF p % 2 = 1
    THEN [allow_timesheets |-> TRUE, analytic_account_id |-> (p + 1) \div 2,
          allocated_hours |-> 2000]
    ELSE [allow_timesheets |-> FALSE, analytic_account_id |-> NoId,
          allocated_hours |-> 2000]

InitTask2(p, parent, active) ==
    [InitTask(p, parent) EXCEPT !.planned_hours = 2000, !.remaining_hours = 2000,
                                !.active = active]

TaskPair == {1, 2}

InitTaskWrite ==
    /\ project = [p \in ProjectIds |-> InitMoveProject(p)]
    /\ nextProjectId = MaxProjects + 1
    /\ accounts = (MaxProjects + 1) \div 2
    /\ task = [t \in TaskPair |-> InitTask2(1, NoId, TRUE)]
    /\ line = <<>>
    /\ last = NoLast
    /\ search = NoSearch

NextTaskWrite ==
    \/ TaskMove
    \/ TimesheetLog
    \/ TimesheetUnlink

SpecTaskWrite == InitTaskWrite /\ [][NextTaskWrite]_vars

----------------------------------------------------------------------------
(* Specification of the hour rollups: two projects, in the first a forest  *)
(* of tasks of which at most one is archived; time is logged on the tasks  *)
(* and on the projects, changed and removed                                *)

\* the parent maps in which every task is older than its subtasks: every
\* shape of forest over the tasks
Forests == {f \in [TaskIds -> {NoId} \cup TaskIds] : \A t \in TaskIds : f[t] < t}

InitRollup ==
    /\ project = [p \in {1, 2} |-> InitMoveProject(p)]
    /\ nextProjectId = 3
    /\ accounts = 1
    /\ \E f \in Forests : \E archived \in {NoId} \cup TaskIds :
          task = [t \in TaskIds |-> InitTask2(1, f[t], t # archived)]
    /\ line = <<>>
    /\ last = NoLast
    /\ search = NoSearch

NextRollup ==
    \/ TimesheetCreate
    \/ TimesheetWrite
    \/ TimesheetUnlink

SpecRollup == InitRollup /\ [][NextRollup]_vars

----------------------------------------------------------------------------
(* Specification of the progress derivation: a task and its subtask, each  *)
(* with one time entry of any of the amounts; the planned hours are        *)
(* written, the amounts are changed and the entries removed                *)

EffectiveSet == {-1000, 0, 994, 996, 1004, 2500}

SubtaskSet == {0, 3, 1000}

InitProgress ==
    /\ project = [p \in {1} |-> InitMoveProject(p)]
    /\ nextProjectId = 2
    /\ accounts = 1
    /\ \E e \in EffectiveSet : \E s \in SubtaskSet :
          /\ line = [l \in {1, 2} |->
                        [project_id |-> 1, task_id |-> l,
                         unit_amount |-> IF l = 1 THEN e ELSE s]]
          /\ task = Recompute([t \in TaskPair |->
                                  InitTask2(1, IF t = 2 THEN 1 ELSE NoId, TRUE)],
                              line, TaskPair, {})
    /\ last = NoLast
    /\ search = NoSearch

NextProgress ==
    \/ TaskPlan
    \/ TimesheetWrite
    \/ TimesheetUnlink

SpecProgress == InitProgress /\ [][NextProgress]_vars

----------------------------------------------------------------------------
(* The search methods of the computed fields.  A python value is a record  *)
(* of its type and its printed form.                                       *)

Operators == {"=", "!=", "<", "<=", ">", ">=", "like", "in"}

Values == {[type |-> "bool", v |-> "True"], [type |-> "bool", v |-> "False"],
           [type |-> "int", v |-> "0"], [type |-> "int", v |-> "1"],
           [type |-> "float", v |-> "0.5"]}

\* the keys of rating_data.OPERATOR_MAPPING
OPERATOR_MAPPING == {"=", "!=", "<", "<=", ">", ">="}

IsTrue(value) == value = [type |-> "bool", v |-> "True"]

IsFalse(value) == value = [type |-> "bool", v |-> "False"]

\* lines 78-82 and 129-133: the operator of the returned domain
operator_new(operator, value) ==
    IF (operator = "=" /\ IsTrue(value)) \/ (operator = "!=" /\ IsFalse(value))
    THEN "inselect"
    ELSE "not inselect"

\* the search without the check of the operator
search_unchecked_operator(operator, value) ==
    IF value.type # "bool" THEN "ValueError"
    ELSE operator_new(operator, value)

\* Project._search_is_internal_project: the error raised, or the operator
\* of the domain [('id', operator_new, (query, ()))] returned
_search_is_internal_project(operator, value) ==
    IF value.type # "bool" THEN "ValueError"
    ELSE IF operator \notin {"=", "!="} THEN "ValueError"
    ELSE operator_new(operator, value)

\* Project._search_is_project_overtime, likewise
_search_is_project_overtime(operator, value) ==
    IF value.type # "bool" THEN "ValueError"
    ELSE IF operator \notin {"=", "!="} THEN "ValueError"
    ELSE operator_new(operator, value)

\* Task._search_remaining_hours_percentage: the error raised, or the
\* operator of the domain [('id', 'inselect', (query, (value,)))] returned
_search_remaining_hours_percentage(operator, value) ==
    IF operator \notin OPERATOR_MAPPING THEN "NotImplementedError"
    ELSE "inselect"

SearchIsInternalProject ==
    \E operator \in Operators : \E value \in Values :
        /\ search' = [fn |-> "_search_is_internal_project", operator |-> operator,
                      value |-> value,
                      result |-> _search_is_internal_project(operator, value)]
        /\ UNCHANGED <<project, nextProjectId, accounts, task, line, last>>

SearchIsProjectOvertime ==
    \E operator \in Operators : \E value \in Values :
        /\ search' = [fn |-> "_search_is_project_overtime", operator |-> operator,
                      value |-> value,
                      result |-> _search_is_project_overtime(operator, value)]
        /\ UNCHANGED <<project, nextProjectId, accounts, task, line, last>>

SearchRemainingHoursPercentage ==
    \E operator \in Operators : \E value \in Values :
        /\ search' = [fn |-> "_search_remaining_hours_percentage",
                      operator |-> operator, value |-> value,
                      result |-> _search_remaining_hours_percentage(operator, value)]
        /\ UNCHANGED <<project, nextProjectId, accounts, task, line, last>>

NextSearch ==
    \/ SearchIsInternalProject
    \/ SearchIsProjectOvertime
    \/ SearchRemainingHoursPercentage

SpecSearch == Init /\ [][NextSearch]_vars

\* the subquery of _search_is_project_overtime, lines 117-128, over the
\* stored rows
overtime_query(projs, tasks) ==
    {p \in DOMAIN projs :
        LET joined == {t \in DOMAIN tasks :
                          /\ tasks[t].project_id = p
                          /\ tasks[t].parent_id = NoId
                          /\ ~tasks[t].is_closed}
        IN /\ projs[p].allocated_hours > 0
           /\ projs[p].allow_timesheets
           /\ joined # {}
           /\ projs[p].allocated_hours
                - SumOver(joined, [t \in DOMAIN tasks |-> tasks[t].effective_hours]) < 0}

\* the projects that search([('is_project_overtime', operator, value)]) finds
search_is_project_overtime(projs, tasks, operator, value) ==
    LET op == _search_is_project_overtime(operator, value)
    IN IF op = "inselect" THEN overtime_query(projs, tasks)
       ELSE IF op = "not inselect" THEN DOMAIN projs \ overtime_query(projs, tasks)
       ELSE {}

\* the remaining hours over the time entries of the tasks of project p
remaining_hours_by_task(projs, lines, p) ==
    LET timesheet_time == SumOver({l \in DOMAIN lines : lines[l].task_id # NoId
                                                       /\ lines[l].project_id = p},
                                  [l \in DOMAIN lines |-> lines[l].unit_amount])
        remaining_hours == projs[p].allocated_hours - timesheet_time
    IN [remaining_hours |-> remaining_hours,
        is_project_overtime |-> remaining_hours < 0]

\* Project._compute_remaining_hours for project p
_compute_remaining_hours(projs, lines, p) ==
    LET timesheet_time == SumOver({l \in DOMAIN lines : lines[l].project_id = p},
                                  [l \in DOMAIN lines |-> lines[l].unit_amount])
        remaining_hours == projs[p].allocated_hours - timesheet_time
    IN [remaining_hours |-> remaining_hours,
        is_project_overtime |-> remaining_hours < 0]

----------------------------------------------------------------------------
(* Properties of the project hooks *)

HasAccount(p) == project[p].analytic_account_id # NoId

\* C1: after any sequence of creates and writes, every stored project that
\* allows timesheets has an analytic account; a create or write that ends
\* in ValidationError leaves every project and account as it was
C1_AllowTimesheetsNeedsAccount ==
    /\ [](\A p \in DOMAIN project : project[p].allow_timesheets => HasAccount(p))
    /\ [][last'.result = "ValidationError"
            => /\ last'.op \in {"create", "write"}
               /\ UNCHANGED <<project, accounts>>]_vars

\* a write that asked for timesheets without an account was refused while
\* another project keeps timesheets with its account
C1_Witness ==
    /\ last.op = "write"
    /\ last.result = "ValidationError"
    /\ \E p \in DOMAIN project : project[p].allow_timesheets /\ HasAccount(p)

\* the vals of a create that call for a new account: timesheets allowed by
\* the vals or else by the default (True), no account in the vals or else
\* in the default
NeedsAccount(vals, ctx) ==
    /\ GetAllow(vals, TRUE)
    /\ GetAccount(vals, ctx) = NoId

\* C2: Project.create gives every vals that allows timesheets without an
\* account a new account of its own in vals['analytic_account_id'], leaves
\* every other vals as passed and creates no other account; the creation
\* does not raise and the records carry the accounts
C2_CreateProvisionsAccount ==
    [][last'.op = "create" =>
        LET vl == last'.vals
            hk == last'.hooked
            need == {i \in 1..Len(vl) : NeedsAccount(vl[i], last'.ctx)}
        IN /\ last'.result = "ok"
           /\ Len(hk) = Len(vl)
           /\ accounts' = accounts + Cardinality(need)
           /\ \A i \in need :
                /\ hk[i].analytic_account_id \in (accounts + 1)..accounts'
                /\ hk[i] = SetAccount(vl[i], hk[i].analytic_account_id)
                /\ \A j \in need : j # i =>
                      hk[j].analytic_account_id # hk[i].analytic_account_id
           /\ \A i \in 1..Len(vl) : i \notin need => hk[i] = vl[i]
           /\ \A i \in 1..Len(vl) :
                LET p == nextProjectId + i - 1
                IN /\ p \in DOMAIN project' \ DOMAIN project
                   /\ project'[p].analytic_account_id
                         = GetAccount(hk[i], last'.ctx)
                   /\ project'[p].allow_timesheets = GetAllow(vl[i], TRUE)
    ]_vars

\* a create of two vals, one provisioned, one left alone
C2_Witness ==
    /\ last.op = "create"
    /\ last.result = "ok"
    /\ Len(last.vals) = 2
    /\ NeedsAccount(last.vals[1], last.ctx)
    /\ ~NeedsAccount(last.vals[2], last.ctx)
    /\ last.hooked[1] # last.vals[1]
    /\ last.hooked[2] = last.vals[2]

\* C3: after a write that sets allow_timesheets to True, with
\* analytic_account_id absent from the values or present and empty, on a
\* recordset holding projects without an account, every project of the
\* recordset has an account, and those that had one keep it
C3_WriteProvisionsAccount ==
    [][(/\ last'.op = "write"
        /\ GetAllow(last'.vals[1], FALSE)
        /\ GetAccount(last'.vals[1], NoId) = NoId
        /\ \E p \in last'.ids : ~HasAccount(p))
        => \A p \in last'.ids :
             /\ project'[p].analytic_account_id # NoId
             /\ HasAccount(p) =>
                  project'[p].analytic_account_id = project[p].analytic_account_id
    ]_vars

----------------------------------------------------------------------------
(* Properties of the before-delete hooks *)

ProjectsWithTimesheets(ids) ==
    {p \in ids : \E l \in DOMAIN line : line[l].project_id = p}

\* C5: no project with a time entry is ever deleted; deleting a recordset
\* in which some project has time entries raises RedirectWarning with
\* exactly those projects as active_ids (plural message when more than
\* one) and deletes none; a recordset without time entries is deleted
C5_ProjectUnlinkBlocked ==
    /\ [][\A p \in DOMAIN project :
            ProjectsWithTimesheets({p}) # {} => p \in DOMAIN project']_vars
    /\ [][last'.op = "unlink" =>
            LET blocked == ProjectsWithTimesheets(last'.ids)
            IN IF blocked # {}
               THEN /\ last'.result = "RedirectWarning"
                    /\ last'.active_ids = blocked
                    /\ last'.plural = (Cardinality(blocked) > 1)
                    /\ UNCHANGED project
               ELSE /\ last'.result = "ok"
                    /\ DOMAIN project' = DOMAIN project \ last'.ids]_vars

\* a delete of two projects was refused because of one of them
C5_Witness ==
    /\ last.op = "unlink"
    /\ last.result = "RedirectWarning"
    /\ Cardinality(last.ids) = 2
    /\ Cardinality(last.active_ids) = 1
    /\ ~last.plural
    /\ last.ids \subseteq DOMAIN project

TasksWithTimesheets(ids) ==
    {t \in ids : \E l \in DOMAIN line : line[l].task_id = t}

\* C6: no task with a time entry is ever deleted; deleting a task recordset
\* raises RedirectWarning exactly when a time entry has its task_id in the
\* recordset, with the referenced tasks as active_ids, and deletes none;
\* otherwise the recordset is deleted
C6_TaskUnlinkBlocked ==
    /\ [][\A t \in DOMAIN task :
            TasksWithTimesheets({t}) # {} => t \in DOMAIN task']_vars
    /\ [][last'.op = "task_unlink" =>
            LET blocked == TasksWithTimesheets(last'.ids)
            IN IF blocked # {}
               THEN /\ last'.result = "RedirectWarning"
                    /\ last'.active_ids = blocked
                    /\ UNCHANGED task
               ELSE /\ last'.result = "ok"
                    /\ DOMAIN task' = DOMAIN task \ last'.ids]_vars

\* a delete of several tasks was refused because of two of them
C6_Witness ==
    /\ last.op = "task_unlink"
    /\ last.result = "RedirectWarning"
    /\ Cardinality(last.active_ids) = 2
    /\ last.active_ids # last.ids
    /\ last.ids \subseteq DOMAIN task

----------------------------------------------------------------------------
(* Properties of the task write hook *)

\* C4: a write that empties project_id on a recordset with time entries
\* raises UserError and changes no task and no time entry; the same write
\* on a recordset without time entries goes through; so no task with time
\* entries loses its project
C4_TaskKeepsProject ==
    /\ [][\A t \in DOMAIN task :
            (TasksWithTimesheets({t}) # {} /\ task[t].project_id # NoId)
                => task'[t].project_id # NoId]_vars
    /\ [][(/\ last'.op = "task_write"
           /\ "project_id" \in DOMAIN last'.vals[1]
           /\ last'.vals[1].project_id = NoId)
            => IF TasksWithTimesheets(last'.ids) # {}
               THEN /\ last'.result = "UserError"
                    /\ UNCHANGED <<task, line>>
               ELSE /\ last'.result = "ok"
                    /\ \A t \in last'.ids : task'[t].project_id = NoId]_vars

\* a recordset of a task with time entries and one without was refused
C4_Witness ==
    /\ last.op = "task_write"
    /\ last.result = "UserError"
    /\ TasksWithTimesheets(last.ids) # {}
    /\ TasksWithTimesheets(last.ids) # last.ids
    /\ \A t \in last.ids : task[t].project_id # NoId

----------------------------------------------------------------------------
(* Properties of the rollups *)

Children(t) == {c \in DOMAIN task : task[c].parent_id = t}

RECURSIVE Descendants(_)
Descendants(t) ==
    Children(t) \cup UNION {Descendants(c) : c \in Children(t)}

\* C8: the stored subtask_effective_hours of every task is the sum of the
\* effective_hours of all its descendants, archived ones included, and 0
\* for a task without children
C8_SubtaskRollup ==
    \A t \in DOMAIN task :
        /\ task[t].subtask_effective_hours =
              SumOver(Descendants(t),
                      [d \in DOMAIN task |-> task[d].effective_hours])
        /\ Children(t) = {} => task[t].subtask_effective_hours = 0

\* a task whose archived child and whose grandchild both have hours
C8_Witness ==
    \E t \in DOMAIN task : \E c \in Children(t) : \E g \in Children(c) :
        /\ ~task[c].active
        /\ task[c].effective_hours > 0
        /\ task[g].effective_hours > 0
        /\ task[t].subtask_effective_hours =
              task[c].effective_hours + task[g].effective_hours

----------------------------------------------------------------------------
(* Properties of the search methods *)

BooleanSearches == {"_search_is_internal_project", "_search_is_project_overtime"}

\* the calls the claim calls malformed: an operator the method does not
\* support, for the boolean methods also a value that is not a bool
Malformed(fn, operator, value) ==
    IF fn \in BooleanSearches
    THEN operator \notin {"=", "!="} \/ value.type # "bool"
    ELSE operator \notin OPERATOR_MAPPING

\* C7 as stated: every one of the three search methods answers a malformed
\* call with ValueError
C7_AllRaiseValueError ==
    search.fn # "none" =>
        (Malformed(search.fn, search.operator, search.value)
            => search.result = "ValueError")

\* C7 as amended: the two boolean search methods answer a malformed call
\* with ValueError, _search_remaining_hours_percentage answers an
\* unsupported operator with NotImplementedError; every other call returns
\* a domain
C7_SearchErrors ==
    search.fn # "none" =>
        IF Malformed(search.fn, search.operator, search.value)
        THEN search.result = (IF search.fn \in BooleanSearches
                              THEN "ValueError" ELSE "NotImplementedError")
        ELSE search.result \in {"inselect", "not inselect"}

\* a boolean search method was called with a bool and an operator it does
\* not support
C7_Witness ==
    /\ search.fn = "_search_is_project_overtime"
    /\ search.value.type = "bool"
    /\ search.operator = "<"
    /\ search.result = "ValueError"

----------------------------------------------------------------------------
(* Properties of the progress derivation *)

\* C9: with total = effective_hours + subtask_effective_hours, a task
\* without positive planned hours has progress 0 and overtime 0; otherwise
\* overtime is max(total - planned_hours, 0), progress is 100 when the
\* rounded total reaches the rounded planned hours and else the nearest
\* hundredth to 100 * total / planned_hours; progress never exceeds 100,
\* overtime is never negative, and overtime > 0 implies progress = 100
C9_ProgressOvertime ==
    \A t \in DOMAIN task :
        LET total == task[t].effective_hours + task[t].subtask_effective_hours
            planned == task[t].planned_hours
            progress == task[t].progress
            overtime == task[t].overtime
        IN /\ planned <= 0 => (progress = 0 /\ overtime = 0)
           /\ planned > 0 =>
                /\ overtime = (IF total > planned THEN total - planned ELSE 0)
                /\ float_round(total) >= float_round(planned)
                      => progress = 100 * 100
                /\ float_round(total) < float_round(planned)
                      => 2 * Abs(progress * planned - 100 * 100 * total) <= planned
           /\ progress <= 100 * 100
           /\ overtime >= 0
           /\ overtime > 0 => progress = 100 * 100

\* after a write of the planned hours a task is at 100 percent without
\* overtime, its total being below the planned hours by less than the
\* tolerance, and another task is in overtime
C9_Witness ==
    /\ last.op = "task_write"
    /\ \E t \in DOMAIN task :
          /\ task[t].planned_hours > 0
          /\ task[t].effective_hours + task[t].subtask_effective_hours
                < task[t].planned_hours
          /\ task[t].progress = 100 * 100
          /\ task[t].overtime = 0
    /\ \E t \in DOMAIN task : task[t].overtime > 0

----------------------------------------------------------------------------
(* Properties of the project hours *)

\* C10: for every project, the search on is_project_overtime selects it
\* for ('=', True) and ('!=', False) exactly when the computed
\* is_project_overtime is True, and for ('=', False) and ('!=', True)
\* exactly when it is False
C10_SearchAgreesWithCompute ==
    \A p \in DOMAIN project :
        LET computed == _compute_remaining_hours(project, line, p).is_project_overtime
            true == [type |-> "bool", v |-> "True"]
            false == [type |-> "bool", v |-> "False"]
        IN /\ p \in search_is_project_overtime(project, task, "=", true) <=> computed
           /\ p \in search_is_project_overtime(project, task, "!=", false) <=> computed
           /\ p \in search_is_project_overtime(project, task, "=", false) <=> ~computed
           /\ p \in search_is_project_overtime(project, task, "!=", true) <=> ~computed

----------------------------------------------------------------------------
(* Properties of the move of a task *)

\* C11: after a write with a non-empty project_id that completes, every
\* time entry of the written tasks has the new project when that project
\* allows timesheets and keeps the project it had when it does not; a
\* write without the key project_id changes no time entry
C11_TimesheetsFollowTask ==
    [][(last'.op = "task_write" /\ last'.result = "ok") =>
        LET values == last'.vals[1]
            entries == {l \in DOMAIN line : line[l].task_id \in last'.ids}
        IN /\ DOMAIN line' = DOMAIN line
           /\ ("project_id" \in DOMAIN values /\ values.project_id # NoId) =>
                \A l \in entries :
                    /\ line'[l].task_id = line[l].task_id
                    /\ line'[l].project_id =
                          IF project[values.project_id].allow_timesheets
                          THEN values.project_id
                          ELSE line[l].project_id
           /\ "project_id" \notin DOMAIN values => line' = line
    ]_vars

\* a task was moved to a project that does not allow timesheets and its
\* time entry stays with the project it was logged on
C11_Witness ==
    /\ last.op = "task_write"
    /\ last.result = "ok"
    /\ "project_id" \in DOMAIN last.vals[1]
    /\ last.vals[1].project_id \in DOMAIN project
    /\ ~project[last.vals[1].project_id].allow_timesheets
    /\ \E l \in DOMAIN line :
          /\ line[l].task_id \in last.ids
          /\ line[l].project_id # last.vals[1].project_id
          /\ task[line[l].task_id].project_id = last.vals[1].project_id

----------------------------------------------------------------------------
(* Properties of the remaining hours *)

\* the hours of the time entries of ids that are logged on project p
RECURSIVE HoursLogged(_, _)
HoursLogged(p, ids) ==
    IF ids = <<>> THEN 0
    ELSE (IF line[Head(ids)].project_id = p THEN line[Head(ids)].unit_amount ELSE 0)
         + HoursLogged(p, Tail(ids))

\* C12: for every project, remaining_hours is allocated_hours minus the
\* sum of unit_amount over the time entries whose project_id is the project
\* (allocated_hours when there is none), and is_project_overtime is True
\* exactly when remaining_hours < 0
C12_ProjectRemainingHours ==
    \A p \in DOMAIN project :
        LET computed == _compute_remaining_hours(project, line, p)
            logged == HoursLogged(p, SetToSeq(DOMAIN line))
        IN /\ computed.remaining_hours = project[p].allocated_hours - logged
           /\ (\A l \in DOMAIN line : line[l].project_id # p)
                => computed.remaining_hours = project[p].allocated_hours
           /\ computed.is_project_overtime <=> (computed.remaining_hours < 0)
           /\ computed.is_project_overtime
                <=> (logged > project[p].allocated_hours)

\* time was logged on a task and on the project alone: the project is in
\* overtime while the other project, without time entries, is not
C12_Witness ==
    /\ last.op = "timesheet"
    /\ \E p \in DOMAIN project :
          /\ _compute_remaining_hours(project, line, p).is_project_overtime
          /\ \E l \in DOMAIN line : line[l].project_id = p /\ line[l].task_id = NoId
          /\ \E l \in DOMAIN line : line[l].project_id = p /\ line[l].task_id # NoId
    /\ \E q \in DOMAIN project :
          /\ \A l \in DOMAIN line : line[l].project_id # q
          /\ ~_compute_remaining_hours(project, line, q).is_project_overtime

\* the hours of the time entries of ids that are linked to task t
RECURSIVE HoursSpent(_, _)
HoursSpent(t, ids) ==
    IF ids = <<>> THEN 0
    ELSE (IF line[Head(ids)].task_id = t THEN line[Head(ids)].unit_amount ELSE 0)
         + HoursSpent(t, Tail(ids))

\* C13: for every task, remaining_hours is planned_hours - effective_hours
\* - subtask_effective_hours, so remaining_hours + total_hours_spent is
\* planned_hours, with effective_hours the sum of unit_amount of the time
\* entries of the task; remaining_hours_percentage is remaining_hours /
\* planned_hours when planned_hours > 0 and 0 otherwise, never a division
\* by zero
C13_TaskRemainingHours ==
    \A t \in DOMAIN task :
        LET tk == task[t]
            percentage == _compute_remaining_hours_percentage(tk.planned_hours,
                                                              tk.remaining_hours)
        IN /\ tk.effective_hours = HoursSpent(t, SetToSeq(DOMAIN line))
           /\ tk.remaining_hours =
                 tk.planned_hours - tk.effective_hours - tk.subtask_effective_hours
           /\ tk.remaining_hours + tk.total_hours_spent = tk.planned_hours
           /\ percentage.den # 0
           /\ tk.planned_hours > 0 =>
                 percentage.num * tk.planned_hours = tk.remaining_hours * percentage.den
           /\ tk.planned_hours <= 0 => percentage.num = 0

\* after a write of the planned hours, a task with planned hours has hours
\* of its own and of its subtask, and the subtask, without planned hours,
\* has hours spent
C13_Witness ==
    /\ last.op = "task_write"
    /\ \E t \in DOMAIN task :
          /\ task[t].planned_hours > 0
          /\ task[t].effective_hours > 0
          /\ task[t].subtask_effective_hours > 0
          /\ task[t].remaining_hours < 0
    /\ \E t \in DOMAIN task :
          /\ task[t].planned_hours <= 0
          /\ task[t].remaining_hours # 0

====
